---- MODULE Spec2Model ----
(***************************************************************************)
(* Browser-side layer of the civic reports application.                    *)
(*                                                                         *)
(*   src/unnamed/part_001   AuthManager (login, register, refreshToken,    *)
(*                          logout, makeAuthenticatedRequest)              *)
(*   src/static/js/main.js  getAuthToken/removeAuthToken, checkAuthStatus, *)
(*                          apiCall, showLoading/hideLoading               *)
(*   src/unnamed/part_000   CitizenDashboard (loadReports, updateStats,    *)
(*                          applyFilters, renderReports)                   *)
(*                                                                         *)
(* Every async function is cut at its awaits: one action per stretch of    *)
(* code that runs without yielding to the event loop.  The server is       *)
(* nondeterministic: each awaited fetch resolves with any status or        *)
(* rejects with a network error.  localStorage is shared by every script   *)
(* (and tab) of the origin, so the operations interleave freely on it.     *)
(***************************************************************************)
EXTENDS Integers, Sequences, FiniteSets, TLC

(***************************************************************************)
(* Values                                                                  *)
(***************************************************************************)
\* localStorage.getItem returns null for a missing key
None == "none"

\* access tokens the token endpoints can issue
AccessTokens == {"a1", "a2"}

\* refresh tokens the token endpoint can issue
RefreshTokens == {"r1"}

\* user profile records returned by /api/user/profile/
Profiles == {"citizen", "admin"}

\* sessionData.role of /auth/session-login/
Roles == {"citizen", "admin"}

\* HTTP statuses the server answers with: success, unauthorized, failure
Statuses == {200, 401, 500}

Responses == [status : Statuses]

NoResponse == [status |-> 0]

\* response.ok
Ok(resp) == resp.status >= 200 /\ resp.status <= 299

\* what an async function hands to its caller
Pending == [kind |-> "pending", resp |-> NoResponse]
RetNull == [kind |-> "null", resp |-> NoResponse]
RetUndefined == [kind |-> "undefined", resp |-> NoResponse]
Throws == [kind |-> "throws", resp |-> NoResponse]
RetResponse(resp) == [kind |-> "response", resp |-> resp]
RetData(resp) == [kind |-> "data", resp |-> resp]

(***************************************************************************)
(* Headers                                                                 *)
(***************************************************************************)
HeaderKeys == {"Authorization", "Content-Type"}

Absent == [scheme |-> None, cred |-> None]

\* `Bearer ${token}`
Bearer(token) == [scheme |-> "Bearer", cred |-> token]

Json == [scheme |-> "application/json", cred |-> None]

\* header values a caller passes in options.headers
CallerAuth == [scheme |-> "Basic", cred |-> "caller"]
CallerType == [scheme |-> "text/plain", cred |-> None]

NoHeaders == [k \in HeaderKeys |-> Absent]

\* options.headers of a call: any subset of the keys set by the caller
CallerHeaders ==
    { [k \in HeaderKeys |-> IF k \in ks
                            THEN (IF k = "Authorization" THEN CallerAuth ELSE CallerType)
                            ELSE Absent] : ks \in SUBSET HeaderKeys }

MergeDefaultsWin(defaults, caller) ==
    [k \in HeaderKeys |-> IF defaults[k] # Absent THEN defaults[k] ELSE caller[k]]

\* { ...defaults, ...caller }: object spread, later keys overwrite earlier
MergeHeaders(defaults, caller) ==
    [k \in HeaderKeys |-> IF caller[k] # Absent THEN caller[k] ELSE defaults[k]]

(***************************************************************************)
(* State                                                                   *)
(***************************************************************************)
VARIABLES
    localStorage,   \* authToken, refreshToken, userInfo
    location,       \* window.location: last path navigated to
    spinner,        \* #loading-spinner visible
    mar,            \* the makeAuthenticatedRequest call
    api,            \* the apiCall call
    login,          \* the handleLogin call
    reg,            \* the handleRegister call
    chk             \* the checkAuthStatus call

authVars == <<localStorage, location, spinner, mar, api, login, reg, chk>>

VARIABLES
    reports,          \* this.reports
    filteredReports,  \* this.filteredReports
    currentFilters,   \* this.currentFilters
    stats,            \* the four count elements of the page
    containerHidden,  \* #reports-container has class hidden
    noReportsHidden,  \* #no-reports has class hidden
    containerHTML,    \* #reports-container innerHTML, one fragment per entry
    reportsLoading,   \* #reports-loading visible
    loadsInFlight,    \* loadReports calls waiting for their fetch
    overtaken,        \* how many of them, the oldest, were issued before a call
                      \* whose response has already been applied
    lastData,         \* the body of the last response a loadReports call applied
    lastStale         \* that response answered an overtaken call

dashVars == <<reports, filteredReports, currentFilters, stats, containerHidden,
              noReportsHidden, containerHTML, reportsLoading, loadsInFlight,
              overtaken, lastData, lastStale>>

vars == <<authVars, dashVars>>

EmptyStore == [authToken |-> None, refreshToken |-> None, userInfo |-> None]

\* localStorage.removeItem('authToken')
RemoveAuthToken(ls) == [ls EXCEPT !.authToken = None]

\* AuthManager.logout: the three removeItem calls
LogoutStore(ls) ==
    [ls EXCEPT !.authToken = None, !.refreshToken = None, !.userInfo = None]

ShowLoadingKeep(sp) == sp
\* showLoading: the spinner is displayed
ShowLoading(sp) == TRUE

HideLoadingNoop(sp) == sp

HideLoading(sp) == FALSE

(***************************************************************************)
(* AuthManager.logout                                                      *)
(***************************************************************************)
Logout ==
    /\ localStorage' = LogoutStore(localStorage)
    /\ location' = "/login/"
    /\ UNCHANGED <<spinner, mar, api, login, reg, chk, dashVars>>

(***************************************************************************)
(* AuthManager.makeAuthenticatedRequest, with AuthManager.refreshToken     *)
(*                                                                         *)
(* mar.token, mar.options and mar.headers are the function's locals (they  *)
(* die when it returns); mar.sends and mar.refreshes count the fetches of  *)
(* the original url and of the refresh endpoint; mar.received lists the    *)
(* responses to the fetches of the original url; mar.ret is what the       *)
(* caller gets.                                                            *)
(***************************************************************************)
MarIdle ==
    [pc |-> "idle", token |-> None, options |-> NoHeaders, headers |-> NoHeaders,
     sends |-> 0, refreshes |-> 0, received |-> <<>>, ret |-> Pending]

\* the function returns: its locals are gone
MarReturn(m, ret) ==
    [m EXCEPT !.pc = "done", !.token = None, !.options = NoHeaders,
              !.headers = NoHeaders, !.ret = ret]

\* const headers = { 'Authorization': `Bearer ${token}`, ...options.headers }
MarHeaders(token, options) ==
    MergeHeaders([NoHeaders EXCEPT !["Authorization"] = Bearer(token)], options)

RetryHeadersStale(headers, token) == headers

\* headers['Authorization'] = `Bearer ${token}`
RetryHeaders(headers, token) ==
    [headers EXCEPT !["Authorization"] = Bearer(token)]

StoreAfterNoTokenPartial(ls) == RemoveAuthToken(ls)

\* if (!token) { this.logout(); return null; }
StoreAfterNoToken(ls) == LogoutStore(ls)

\* the token check, then the first fetch
MarStart(options) ==
    /\ mar.pc \in {"idle", "done"}
    /\ LET token == localStorage.authToken IN
       IF token = None
       THEN /\ localStorage' = StoreAfterNoToken(localStorage)
            /\ location' = "/login/"
            /\ mar' = MarReturn(MarIdle, RetNull)
       ELSE /\ mar' = [MarIdle EXCEPT !.pc = "fetch1", !.token = token,
                                      !.options = options,
                                      !.headers = MarHeaders(token, options),
                                      !.sends = 1]
            /\ UNCHANGED <<localStorage, location>>
    /\ UNCHANGED <<spinner, api, login, reg, chk, dashVars>>

\* the first fetch resolves; a 401 enters refreshToken up to its own fetch
MarRecvFirst(resp) ==
    /\ mar.pc = "fetch1"
    /\ LET m == [mar EXCEPT !.received = Append(mar.received, resp)] IN
       IF resp.status = 401
       THEN IF localStorage.refreshToken = None
            THEN \* refreshToken: if (!refreshToken) { this.logout(); return null; }
                 /\ localStorage' = LogoutStore(localStorage)
                 /\ location' = "/login/"
                 /\ mar' = MarReturn(m, RetNull)
            ELSE /\ mar' = [m EXCEPT !.pc = "refresh",
                                     !.refreshes = mar.refreshes + 1]
                 /\ UNCHANGED <<localStorage, location>>
       ELSE /\ mar' = MarReturn(m, RetResponse(resp))
            /\ UNCHANGED <<localStorage, location>>
    /\ UNCHANGED <<spinner, api, login, reg, chk, dashVars>>

\* a fetch of the original url rejects: nothing catches it
MarFetchThrows ==
    /\ mar.pc \in {"fetch1", "fetch2"}
    /\ mar' = MarReturn(mar, Throws)
    /\ UNCHANGED <<localStorage, location, spinner, api, login, reg, chk, dashVars>>

\* refreshToken: response.ok, data.access stored and returned; then the resend
MarRefreshOk(access) ==
    /\ mar.pc = "refresh"
    /\ localStorage' = [localStorage EXCEPT !.authToken = access]
    /\ mar' = [mar EXCEPT !.pc = "fetch2", !.token = access,
                          !.headers = RetryHeaders(mar.headers, access),
                          !.sends = mar.sends + 1]
    /\ UNCHANGED <<location, spinner, api, login, reg, chk, dashVars>>

RefreshFailLogout(ls) == LogoutStore(ls)

\* refreshToken's catch: "Don't force logout on JWT failure"; return null
RefreshFailStore(ls) == ls

\* refreshToken: !response.ok, or the fetch or response.json() throws
MarRefreshFail ==
    /\ mar.pc = "refresh"
    /\ localStorage' = RefreshFailStore(localStorage)
    /\ mar' = MarReturn(mar, RetNull)
    /\ UNCHANGED <<location, spinner, api, login, reg, chk, dashVars>>

AfterRetryLoop(m, resp) ==
    IF resp.status = 401 /\ m.refreshes < 2
    THEN [m EXCEPT !.pc = "refresh", !.refreshes = m.refreshes + 1]
    ELSE MarReturn(m, RetResponse(resp))

\* response = await fetch(url, { ...options, headers }); ... return response
AfterRetry(m, resp) == MarReturn(m, RetResponse(resp))

MarRecvSecond(resp) ==
    /\ mar.pc = "fetch2"
    /\ mar' = AfterRetry([mar EXCEPT !.received = Append(mar.received, resp)], resp)
    /\ UNCHANGED <<localStorage, location, spinner, api, login, reg, chk, dashVars>>

(***************************************************************************)
(* apiCall (main.js)                                                       *)
(***************************************************************************)
ApiIdle ==
    [pc |-> "idle", options |-> NoHeaders, headers |-> NoHeaders, ret |-> Pending]

\* the function returns or throws: its locals are gone
ApiReturn(ret) == [ApiIdle EXCEPT !.pc = "done", !.ret = ret]

\* defaultHeaders: Content-Type always, Authorization when a token is stored
ApiDefaultHeaders(token) ==
    [NoHeaders EXCEPT !["Content-Type"] = Json,
                      !["Authorization"] = IF token # None THEN Bearer(token)
                                           ELSE Absent]

\* config.headers = { ...defaultHeaders, ...options.headers }
ApiConfigHeaders(token, options) ==
    MergeHeaders(ApiDefaultHeaders(token), options)

\* showLoading(); fetch(`${apiBaseUrl}${endpoint}`, config)
ApiStart(options) ==
    /\ api.pc \in {"idle", "done"}
    /\ api' = [ApiIdle EXCEPT !.pc = "fetch", !.options = options,
                 !.headers = ApiConfigHeaders(localStorage.authToken, options)]
    /\ spinner' = ShowLoading(spinner)
    /\ UNCHANGED <<localStorage, location, mar, login, reg, chk, dashVars>>

\* the fetch resolves: 401 drops the token and redirects; !ok throws; finally
ApiRecv(resp) ==
    /\ api.pc = "fetch"
    /\ IF resp.status = 401
       THEN /\ localStorage' = RemoveAuthToken(localStorage)
            /\ location' = "/login/"
            /\ api' = ApiReturn(RetUndefined)
       ELSE /\ api' = ApiReturn(IF Ok(resp) THEN RetData(resp) ELSE Throws)
            /\ UNCHANGED <<localStorage, location>>
    /\ spinner' = HideLoading(spinner)
    /\ UNCHANGED <<mar, login, reg, chk, dashVars>>

\* the fetch rejects or response.json() throws: catch, toast, rethrow; finally
ApiThrows ==
    /\ api.pc = "fetch"
    /\ api' = ApiReturn(Throws)
    /\ spinner' = HideLoading(spinner)
    /\ UNCHANGED <<localStorage, location, mar, login, reg, chk, dashVars>>

(***************************************************************************)
(* checkAuthStatus (main.js)                                               *)
(***************************************************************************)
\* if (token) fetch('/api/auth/token/verify/')
ChkStart ==
    /\ chk \in {"idle", "done"}
    /\ chk' = IF localStorage.authToken # None THEN "verify" ELSE "done"
    /\ UNCHANGED <<localStorage, location, spinner, mar, api, login, reg, dashVars>>

\* .then: !response.ok removes the token and leaves for the login page
ChkRecv(ok) ==
    /\ chk = "verify"
    /\ chk' = "done"
    /\ IF ok
       THEN UNCHANGED <<localStorage, location>>
       ELSE /\ localStorage' = RemoveAuthToken(localStorage)
            /\ location' = IF location # "/login/" THEN "/login/" ELSE location
    /\ UNCHANGED <<spinner, mar, api, login, reg, dashVars>>

\* .catch: the token is removed, no redirect
ChkThrows ==
    /\ chk = "verify"
    /\ chk' = "done"
    /\ localStorage' = RemoveAuthToken(localStorage)
    /\ UNCHANGED <<location, spinner, mar, api, login, reg, dashVars>>

(***************************************************************************)
(* AuthManager.handleLogin                                                 *)
(***************************************************************************)
LoginIdle ==
    [pc |-> "idle", role |-> None, access |-> None, refresh |-> None,
     toast |-> None]

\* the function returns: its locals are gone, the toast stays on the page
LoginReturn(toast) == [LoginIdle EXCEPT !.pc = "done", !.toast = toast]

\* window.location.href by sessionData.role
Dashboard(role) ==
    IF role = "admin" THEN "/admin/dashboard/" ELSE "/citizen/dashboard/"

\* showLoading(); fetch('/auth/session-login/')
LoginStart ==
    /\ login.pc \in {"idle", "done"}
    /\ login' = [LoginIdle EXCEPT !.pc = "session"]
    /\ spinner' = ShowLoading(spinner)
    /\ UNCHANGED <<localStorage, location, mar, api, reg, chk, dashVars>>

\* session login ok: fetch(`${this.baseUrl}/token/`)
LoginSessionOk(role) ==
    /\ login.pc = "session"
    /\ login' = [login EXCEPT !.pc = "token", !.role = role]
    /\ UNCHANGED <<localStorage, location, spinner, mar, api, reg, chk, dashVars>>

\* any await of handleLogin throws (!sessionResponse.ok included): catch, finally
LoginThrows ==
    /\ login.pc \in {"session", "token", "profile"}
    /\ login' = LoginReturn("error")
    /\ spinner' = HideLoading(spinner)
    /\ UNCHANGED <<localStorage, location, mar, api, reg, chk, dashVars>>

\* tokenResponse.ok: both tokens stored, then fetch('/api/user/profile/')
LoginTokenOk(access, refresh) ==
    /\ login.pc = "token"
    /\ localStorage' = [localStorage EXCEPT !.authToken = access,
                                            !.refreshToken = refresh]
    /\ login' = [login EXCEPT !.pc = "profile", !.access = access,
                              !.refresh = refresh]
    /\ UNCHANGED <<location, spinner, mar, api, reg, chk, dashVars>>

\* !tokenResponse.ok: nothing stored; 'Login successful!' and the redirect
LoginTokenNotOk ==
    /\ login.pc = "token"
    /\ login' = LoginReturn("success")
    /\ location' = Dashboard(login.role)
    /\ spinner' = HideLoading(spinner)
    /\ UNCHANGED <<localStorage, mar, api, reg, chk, dashVars>>

\* the profile fetch resolves: userInfo stored when ok; toast, redirect, finally
LoginProfileRecv(ok, profile) ==
    /\ login.pc = "profile"
    /\ localStorage' = IF ok THEN [localStorage EXCEPT !.userInfo = profile]
                       ELSE localStorage
    /\ login' = LoginReturn("success")
    /\ location' = Dashboard(login.role)
    /\ spinner' = HideLoading(spinner)
    /\ UNCHANGED <<mar, api, reg, chk, dashVars>>

(***************************************************************************)
(* AuthManager.handleRegister                                              *)
(***************************************************************************)
\* passwords differ: toast and return; else showLoading(); fetch
RegStart(passwordsMatch) ==
    /\ reg \in {"idle", "done"}
    /\ IF passwordsMatch
       THEN /\ reg' = "fetch"
            /\ spinner' = ShowLoading(spinner)
       ELSE /\ reg' = "done"
            /\ UNCHANGED spinner
    /\ UNCHANGED <<localStorage, location, mar, api, login, chk, dashVars>>

\* response.ok: toast, setTimeout(redirect, 2000); finally
RegOk ==
    /\ reg = "fetch"
    /\ reg' = "timer"
    /\ spinner' = HideLoading(spinner)
    /\ UNCHANGED <<localStorage, location, mar, api, login, chk, dashVars>>

\* !response.ok, or the fetch or response.json() throws: catch; finally
RegThrows ==
    /\ reg = "fetch"
    /\ reg' = "done"
    /\ spinner' = HideLoading(spinner)
    /\ UNCHANGED <<localStorage, location, mar, api, login, chk, dashVars>>

\* the timer fires: window.location.href = '/login/'
RegTimer ==
    /\ reg = "timer"
    /\ reg' = "done"
    /\ location' = "/login/"
    /\ UNCHANGED <<localStorage, spinner, mar, api, login, chk, dashVars>>

(***************************************************************************)
(* CitizenDashboard                                                        *)
(***************************************************************************)
\* longest report list the server returns
MaxReports == 2

\* loadReports calls that may overlap
MaxInFlight == 2

ReportStatuses == {"submitted", "in_progress", "resolved", "rejected"}

Categories == {"pothole", "trash"}

\* the reports the server holds: every status and category occurs, and for each
\* pair of selectors a report that matches both, one of them, or neither
Report ==
    { [status |-> "submitted", category |-> "pothole"],
      [status |-> "in_progress", category |-> "trash"],
      [status |-> "resolved", category |-> "trash"],
      [status |-> "rejected", category |-> "pothole"] }

\* the value of a filter <select>: '' is "no constraint"
NoConstraint == ""

ReportLists == UNION { [1..n -> Report] : n \in 0..MaxReports }

\* the count elements before the first updateStats
StatsUnset == [total |-> -1, submitted |-> -1, in_progress |-> -1, resolved |-> -1]

\* this.reports.filter(r => r.status === s).length
CountStatus(list, s) == Len(SelectSeq(list, LAMBDA r : r.status = s))

UpdateStatsMiscount(list) ==
    [total |-> Len(list),
     submitted |-> CountStatus(list, "submitted"),
     in_progress |-> CountStatus(list, "in_progress"),
     resolved |-> CountStatus(list, "resolved") + CountStatus(list, "rejected")]

\* updateStats: the four counts over this.reports
UpdateStats(list) ==
    [total |-> Len(list),
     submitted |-> CountStatus(list, "submitted"),
     in_progress |-> CountStatus(list, "in_progress"),
     resolved |-> CountStatus(list, "resolved")]

FilterStatusOnly(list, filters) ==
    SelectSeq(list, LAMBDA r :
        IF filters.status # NoConstraint
        THEN r.status = filters.status
        ELSE (filters.category = NoConstraint \/ r.category = filters.category))

\* applyFilters: this.reports.filter(...) with the two early "return false"
Filter(list, filters) ==
    SelectSeq(list, LAMBDA r :
        /\ ~(filters.status # NoConstraint /\ r.status # filters.status)
        /\ ~(filters.category # NoConstraint /\ r.category # filters.category))

\* renderReportItem: the parts of a fragment that depend on the report
Fragment(r) == [report |-> r, edit |-> (r.status = "submitted")]

MapFragmentsReversed(list) ==
    [i \in 1..Len(list) |-> Fragment(list[Len(list) + 1 - i])]

RECURSIVE MapFragments(_)
\* this.filteredReports.map(report => this.renderReportItem(report))
MapFragments(list) ==
    IF list = <<>> THEN <<>>
    ELSE <<Fragment(Head(list))>> \o MapFragments(Tail(list))

\* applyFilters then renderReports, on the list and selectors given
ApplyFilters(list, filters) ==
    LET filtered == Filter(list, filters) IN
    /\ filteredReports' = filtered
    /\ IF filtered = <<>>
       THEN /\ containerHidden' = TRUE
            /\ noReportsHidden' = FALSE
            /\ UNCHANGED containerHTML
       ELSE /\ noReportsHidden' = TRUE
            /\ containerHidden' = FALSE
            /\ containerHTML' = MapFragments(filtered)

\* the status <select> changes
SetStatusFilter(v) ==
    /\ currentFilters' = [currentFilters EXCEPT !.status = v]
    /\ ApplyFilters(reports, currentFilters')
    /\ UNCHANGED <<reports, stats, reportsLoading, loadsInFlight, overtaken,
                   lastData, lastStale, authVars>>

\* the category <select> changes
SetCategoryFilter(v) ==
    /\ currentFilters' = [currentFilters EXCEPT !.category = v]
    /\ ApplyFilters(reports, currentFilters')
    /\ UNCHANGED <<reports, stats, reportsLoading, loadsInFlight, overtaken,
                   lastData, lastStale, authVars>>

\* refreshReports: loadReports up to its fetch; the new call is the youngest
RefreshReports ==
    /\ loadsInFlight < MaxInFlight
    /\ loadsInFlight' = loadsInFlight + 1
    /\ UNCHANGED <<reports, filteredReports, currentFilters, stats, containerHidden,
                   noReportsHidden, containerHTML, reportsLoading, overtaken,
                   lastData, lastStale, authVars>>

LoadedUnlessLoaded(current, data) == IF current # <<>> THEN current ELSE data

\* this.reports = data
Loaded(current, data) == data

\* loadReports: response.ok; reports, updateStats, applyFilters; finally.
\* The call resumed is the i-th oldest of those waiting: nothing orders them.
LoadOk(i, data) ==
    /\ i \in 1..loadsInFlight
    /\ loadsInFlight' = loadsInFlight - 1
    /\ overtaken' = IF i <= overtaken THEN overtaken - 1 ELSE i - 1
    /\ lastData' = data
    /\ lastStale' = (i <= overtaken)
    /\ reports' = Loaded(reports, data)
    /\ stats' = UpdateStats(reports')
    /\ ApplyFilters(reports', currentFilters)
    /\ reportsLoading' = FALSE
    /\ UNCHANGED <<currentFilters, authVars>>

\* loadReports: !response.ok or a throw; toast, showNoReports; finally
LoadFail(i) ==
    /\ i \in 1..loadsInFlight
    /\ loadsInFlight' = loadsInFlight - 1
    /\ overtaken' = IF i <= overtaken THEN overtaken - 1 ELSE overtaken
    /\ containerHidden' = TRUE
    /\ noReportsHidden' = FALSE
    /\ reportsLoading' = FALSE
    /\ UNCHANGED <<reports, filteredReports, currentFilters, stats, containerHTML,
                   lastData, lastStale, authVars>>

(***************************************************************************)
(* Specifications                                                          *)
(***************************************************************************)
\* no session, no call started; the dashboard constructed, its load in flight.
\* The page starts with the loading element shown and the list, the empty-state
\* and the spinner hidden (the markup is not part of this layer).
Init ==
    /\ localStorage = EmptyStore
    /\ location = "/"
    /\ spinner = FALSE
    /\ mar = MarIdle
    /\ api = ApiIdle
    /\ login = LoginIdle
    /\ reg = "idle"
    /\ chk = "idle"
    /\ reports = <<>>
    /\ filteredReports = <<>>
    /\ currentFilters = [status |-> NoConstraint, category |-> NoConstraint]
    /\ stats = StatsUnset
    /\ containerHidden = TRUE
    /\ noReportsHidden = TRUE
    /\ containerHTML = <<>>
    /\ reportsLoading = TRUE
    /\ loadsInFlight = 1
    /\ overtaken = 0
    /\ lastData = <<>>
    /\ lastStale = FALSE

\* the session: AuthManager's requests, login and logout, apiCall, checkAuthStatus
Next ==
    \/ Logout
    \/ \E options \in CallerHeaders : MarStart(options)
    \/ \E resp \in Responses : MarRecvFirst(resp)
    \/ MarFetchThrows
    \/ \E access \in AccessTokens : MarRefreshOk(access)
    \/ MarRefreshFail
    \/ \E resp \in Responses : MarRecvSecond(resp)
    \/ \E options \in CallerHeaders : ApiStart(options)
    \/ \E resp \in Responses : ApiRecv(resp)
    \/ ApiThrows
    \/ ChkStart
    \/ \E ok \in BOOLEAN : ChkRecv(ok)
    \/ ChkThrows
    \/ LoginStart
    \/ \E role \in Roles : LoginSessionOk(role)
    \/ LoginThrows
    \/ \E access \in AccessTokens, refresh \in RefreshTokens : LoginTokenOk(access, refresh)
    \/ LoginTokenNotOk
    \/ \E ok \in BOOLEAN, profile \in Profiles : LoginProfileRecv(ok, profile)

Spec == Init /\ [][Next]_vars

\* report lists the busy indicators are exercised with
ShortLists == { <<>>, <<[status |-> "submitted", category |-> "pothole"]>> }

\* the page helpers of main.js and every operation that drives a busy indicator;
\* the loads resume oldest first: their order changes nothing but the record of it
NextMain ==
    \/ Logout
    \/ \E options \in CallerHeaders : ApiStart(options)
    \/ \E resp \in Responses : ApiRecv(resp)
    \/ ApiThrows
    \/ ChkStart
    \/ \E ok \in BOOLEAN : ChkRecv(ok)
    \/ ChkThrows
    \/ LoginStart
    \/ \E role \in Roles : LoginSessionOk(role)
    \/ LoginThrows
    \/ \E access \in AccessTokens, refresh \in RefreshTokens : LoginTokenOk(access, refresh)
    \/ LoginTokenNotOk
    \/ \E ok \in BOOLEAN, profile \in Profiles : LoginProfileRecv(ok, profile)
    \/ \E m \in BOOLEAN : RegStart(m)
    \/ RegOk
    \/ RegThrows
    \/ RegTimer
    \/ RefreshReports
    \/ \E data \in ShortLists : LoadOk(1, data)
    \/ LoadFail(1)

SpecMain == Init /\ [][NextMain]_vars

\* the citizen dashboard; the loads resume oldest first, as in NextMain
NextDash ==
    \/ \E v \in ReportStatuses \cup {NoConstraint} : SetStatusFilter(v)
    \/ \E v \in Categories \cup {NoConstraint} : SetCategoryFilter(v)
    \/ RefreshReports
    \/ \E data \in ReportLists : LoadOk(1, data)
    \/ LoadFail(1)

SpecDash == Init /\ [][NextDash]_vars

\* report lists the overlapping loads are answered with
RaceLists ==
    { <<>>,
      <<[status |-> "submitted", category |-> "pothole"]>>,
      <<[status |-> "resolved", category |-> "trash"],
        [status |-> "submitted", category |-> "pothole"]>>,
      <<[status |-> "rejected", category |-> "pothole"],
        [status |-> "in_progress", category |-> "trash"]>> }

\* the citizen dashboard with its loads resuming in any order
NextLoads ==
    \/ \E v \in ReportStatuses \cup {NoConstraint} : SetStatusFilter(v)
    \/ \E v \in Categories \cup {NoConstraint} : SetCategoryFilter(v)
    \/ RefreshReports
    \/ \E i \in 1..MaxInFlight, data \in RaceLists : LoadOk(i, data)
    \/ \E i \in 1..MaxInFlight : LoadFail(i)

SpecLoads == Init /\ [][NextLoads]_vars

(***************************************************************************)
(* Properties of makeAuthenticatedRequest                                  *)
(***************************************************************************)
Unauthorized == [status |-> 401]

\* this step is the call reading a 401 as its first response
MarFirstIs401 ==
    /\ mar.pc = "fetch1"
    /\ mar'.pc \in {"refresh", "done"}
    /\ Len(mar'.received) = 1
    /\ mar'.received[1] = Unauthorized

\* this step is the refresh request of the call failing
MarRefreshFailed == mar.pc = "refresh" /\ mar'.pc = "done"

\* C1: after a 401 and a successful refresh the new access token is stored, the
\* request is sent a second time, that time with `Bearer <new token>`, and the
\* response to the second send is what the caller gets, whatever its status.
C1_RefreshThenResend ==
    [][ /\ (mar.pc = "refresh" /\ mar'.pc = "fetch2") =>
             /\ Len(mar.received) = 1 /\ mar.received[1] = Unauthorized
             /\ localStorage'.authToken \in AccessTokens
             /\ mar'.token = localStorage'.authToken
             /\ mar'.headers["Authorization"] = Bearer(localStorage'.authToken)
             /\ mar'.headers["Content-Type"] = mar.headers["Content-Type"]
             /\ mar.sends = 1 /\ mar'.sends = 2
        /\ (mar.pc = "fetch2" /\ mar'.pc = "done" /\ mar'.ret # Throws) =>
             /\ Len(mar'.received) = 2
             /\ mar'.ret = RetResponse(mar'.received[2])
             /\ mar'.sends = 2 /\ mar'.refreshes = 1
      ]_vars

\* C1 witness: the resent request was answered 401 again and that is returned
C1_Witness ==
    /\ mar.pc = "done"
    /\ mar.received = <<Unauthorized, Unauthorized>>
    /\ mar.ret = RetResponse(Unauthorized)
    /\ localStorage.authToken \in AccessTokens

\* C2 as stated: however the refresh after a 401 fails, the call returns null
\* and the store and the location are left as they were.
C2_Original ==
    [][ ((MarFirstIs401 /\ mar'.pc = "done") \/ MarRefreshFailed) =>
             /\ mar'.ret = RetNull
             /\ localStorage' = localStorage
             /\ location' = location
      ]_vars

\* C2 amended: when the refresh request fails (non-2xx, network error) the call
\* returns null with the store and the location untouched; when no refresh
\* token is stored, refreshToken sends nothing and logs out: the three entries
\* are removed, the location is the login page, and the call returns null.
C2_RefreshFailure ==
    [][ /\ MarRefreshFailed =>
             /\ mar'.ret = RetNull
             /\ mar'.refreshes = 1 /\ mar'.sends = 1
             /\ localStorage' = localStorage
             /\ location' = location
        /\ (MarFirstIs401 /\ mar'.pc = "done") =>
             /\ localStorage.refreshToken = None
             /\ mar'.ret = RetNull
             /\ mar'.refreshes = 0 /\ mar'.sends = 1
             /\ localStorage' = EmptyStore
             /\ location' = "/login/"
        /\ (MarFirstIs401 /\ mar'.pc = "refresh") =>
             /\ localStorage.refreshToken # None
             /\ mar'.refreshes = 1
             /\ localStorage' = localStorage
             /\ location' = location
      ]_vars

\* C2 witness: a failed refresh behind, null returned, the session still stored
C2_Witness ==
    /\ mar.pc = "done"
    /\ mar.ret = RetNull
    /\ mar.refreshes = 1
    /\ mar.received = <<Unauthorized>>
    /\ localStorage.authToken # None
    /\ localStorage.refreshToken # None
    /\ localStorage.userInfo # None
    /\ location # "/login/"

\* C3: one call sends the original request at most twice and the refresh
\* request at most once; it waits for a refresh only after its first send and
\* for a second response only after its one refresh.
C3_BoundedRetry ==
    /\ mar.sends \in 0..2
    /\ mar.refreshes \in 0..1
    /\ Len(mar.received) <= mar.sends
    /\ mar.pc = "refresh" => (mar.sends = 1 /\ mar.refreshes = 1)
    /\ mar.pc = "fetch2" => (mar.sends = 2 /\ mar.refreshes = 1)
    /\ (mar.pc = "done" /\ Len(mar.received) = 2) => (mar.sends = 2 /\ mar.refreshes = 1)

\* C3 witness: the call is over after a second 401, two sends and one refresh
C3_Witness ==
    /\ mar.pc = "done"
    /\ Len(mar.received) = 2
    /\ mar.received[2] = Unauthorized
    /\ mar.sends = 2
    /\ mar.refreshes = 1

\* C4: a call that finds no access token removes the three entries, sets the
\* location to the login page, returns null and has sent no request.
C4_NoTokenLogout ==
    [][ (mar.pc \in {"idle", "done"} /\ mar' # mar /\ localStorage.authToken = None) =>
             /\ localStorage' = EmptyStore
             /\ location' = "/login/"
             /\ mar'.pc = "done"
             /\ mar'.ret = RetNull
             /\ mar'.sends = 0 /\ mar'.refreshes = 0
      ]_vars

\* C4 witness: the call returned null without a send, the store is empty
C4_Witness ==
    /\ mar.pc = "done"
    /\ mar.sends = 0
    /\ mar.ret = RetNull
    /\ localStorage = EmptyStore
    /\ location = "/login/"
    /\ chk = "done"

(***************************************************************************)
(* Properties of the dashboard                                             *)
(***************************************************************************)
\* the two predicates of the filter: a selector is empty or equals the field
Visible(r) ==
    /\ (currentFilters.status = NoConstraint \/ r.status = currentFilters.status)
    /\ (currentFilters.category = NoConstraint \/ r.category = currentFilters.category)

\* positions of the full list whose report satisfies both predicates
VisibleAt == { i \in 1..Len(reports) : Visible(reports[i]) }

\* the j-th of those positions, counted from the front of the list
NthVisible(j) ==
    CHOOSE i \in VisibleAt : Cardinality({ k \in VisibleAt : k <= i }) = j

\* C5: the filtered list is the sub-sequence of the full list, in its order,
\* of the reports that satisfy both selector predicates.
C5_FilteredIsSubsequence ==
    /\ Len(filteredReports) = Cardinality(VisibleAt)
    /\ \A j \in 1..Len(filteredReports) : filteredReports[j] = reports[NthVisible(j)]

\* C5 witness: both selectors set, two reports loaded, the second one kept and
\* the first dropped although it has the selected category
C5_Witness ==
    /\ currentFilters.status # NoConstraint
    /\ currentFilters.category # NoConstraint
    /\ Len(reports) = 2
    /\ reports[1].category = currentFilters.category
    /\ reports[1].status # currentFilters.status
    /\ filteredReports = <<reports[2]>>

\* number of reports of the full list with the status given
CountOf(s) == Cardinality({ i \in 1..Len(reports) : reports[i].status = s })

\* C6: once a load has set them, the counts are those of the full list,
\* whatever the selectors are and whatever the filtered list is.
C6_CountsOverFullList ==
    stats # StatsUnset =>
        /\ stats.total = Len(reports)
        /\ stats.submitted = CountOf("submitted")
        /\ stats.in_progress = CountOf("in_progress")
        /\ stats.resolved = CountOf("resolved")

\* C6 witness: a selector hides a rejected report and the submitted one; the
\* counts still cover both
C6_Witness ==
    /\ stats.total = 2
    /\ stats.submitted = 1
    /\ stats.resolved = 0
    /\ currentFilters.status = "resolved"
    /\ filteredReports = <<>>
    /\ \E i \in 1..Len(reports) : reports[i].status = "rejected"

(***************************************************************************)
(* Properties of the busy indicators                                       *)
(***************************************************************************)
\* a request that called showLoading is waiting for its response
SpinnerUserInFlight ==
    \/ api.pc = "fetch"
    \/ login.pc \in {"session", "token", "profile"}
    \/ reg = "fetch"

\* C7: with no operation waiting any more, the indicator it controls is
\* hidden: the spinner of apiCall, handleLogin and handleRegister, and the
\* loading element of loadReports.
C7_BusyCleared ==
    /\ ~SpinnerUserInFlight => spinner = FALSE
    /\ loadsInFlight = 0 => reportsLoading = FALSE

\* C7 witness: an apiCall that threw, a login that failed, a registration that
\* went through and a failed load are all over, both indicators hidden
C7_Witness ==
    /\ api.pc = "done" /\ api.ret = Throws
    /\ login.pc = "done" /\ login.toast = "error"
    /\ reg = "timer"
    /\ loadsInFlight = 0 /\ noReportsHidden = FALSE /\ reports = <<>>
    /\ spinner = FALSE
    /\ reportsLoading = FALSE

\* C13 as stated: while a request that called showLoading is waiting, the
\* indicator is visible.
C13_Original == SpinnerUserInFlight => spinner = TRUE

\* this step starts a request that calls showLoading
SpinnerUserStarts ==
    \/ api.pc # "fetch" /\ api'.pc = "fetch"
    \/ login.pc \in {"idle", "done"} /\ login'.pc = "session"
    \/ reg # "fetch" /\ reg' = "fetch"

\* this step ends a request that called showLoading
SpinnerUserFinishes ==
    \/ api.pc = "fetch" /\ api'.pc = "done"
    \/ login.pc \in {"session", "token", "profile"} /\ login'.pc = "done"
    \/ reg = "fetch" /\ reg' # "fetch"

\* C13: the indicator is one flag that counts nothing: a step that starts a
\* request shows it, a step that ends a request hides it whatever else is
\* still waiting, and no other step touches it.
C13_UncountedBusy ==
    [][ /\ SpinnerUserStarts => spinner' = TRUE
        /\ SpinnerUserFinishes => spinner' = FALSE
        /\ ~SpinnerUserStarts /\ ~SpinnerUserFinishes => spinner' = spinner ]_vars

\* C13 witness: apiCall and handleLogin overlapped, apiCall has returned and
\* hidden the indicator, handleLogin is still waiting for its token response
C13_Witness ==
    /\ api.pc = "done" /\ api.ret # Throws
    /\ login.pc = "token"
    /\ spinner = FALSE

(***************************************************************************)
(* Properties of the session store                                         *)
(***************************************************************************)
StoreKeys == {"authToken", "refreshToken", "userInfo"}

\* C8 as stated: a step that removes an entry of the session from the store
\* removes all three.
C8_Original ==
    [][ (\E k \in StoreKeys : localStorage[k] # None /\ localStorage'[k] = None)
            => localStorage' = EmptyStore ]_vars

\* this step is apiCall reading a 401
ApiGot401 == api.pc = "fetch" /\ api'.pc = "done" /\ api'.ret = RetUndefined

\* C9 as stated: a 401, read by makeAuthenticatedRequest or by apiCall, removes
\* no stored token and does not change the location; apiCall does not give up
\* on it without a refresh.
C9_Original ==
    [][ (MarFirstIs401 \/ ApiGot401) =>
            /\ localStorage'.authToken = localStorage.authToken
            /\ location' = location ]_vars

(***************************************************************************)
(* Properties of the headers sent                                          *)
(***************************************************************************)
\* on every key the caller set, the caller's value is the one sent
CallerWins(headers, options) ==
    \A k \in HeaderKeys : options[k] # Absent => headers[k] = options[k]

\* C10 as stated: every request in flight, first send or resend, carries the
\* caller's value on every key the caller set, Authorization included.
C10_Original ==
    /\ mar.pc \in {"fetch1", "fetch2"} => CallerWins(mar.headers, mar.options)
    /\ api.pc = "fetch" => CallerWins(api.headers, api.options)

\* C10 amended: the first send of makeAuthenticatedRequest and the send of
\* apiCall carry the defaults with the caller's value on every key the caller
\* set; the resend after a refresh does so on every key but Authorization,
\* which is `Bearer <new token>` even when the caller set one.
C10_HeadersSent ==
    /\ mar.pc = "fetch1" =>
          /\ CallerWins(mar.headers, mar.options)
          /\ \A k \in HeaderKeys : mar.options[k] = Absent =>
                mar.headers[k] = IF k = "Authorization" THEN Bearer(mar.token) ELSE Absent
    /\ mar.pc = "fetch2" =>
          /\ mar.headers["Authorization"] = Bearer(mar.token)
          /\ mar.headers["Content-Type"] = mar.options["Content-Type"]
    /\ api.pc = "fetch" =>
          /\ CallerWins(api.headers, api.options)
          /\ api.options["Content-Type"] = Absent => api.headers["Content-Type"] = Json
          /\ api.options["Authorization"] = Absent =>
                \/ api.headers["Authorization"] = Absent
                \/ \E t \in AccessTokens : api.headers["Authorization"] = Bearer(t)

\* C10 witness: the resend of a call whose caller set both keys, and an apiCall
\* in flight whose caller set both keys while a token is stored
C10_Witness ==
    /\ mar.pc = "fetch2"
    /\ mar.options["Authorization"] = CallerAuth
    /\ mar.options["Content-Type"] = CallerType
    /\ mar.headers["Content-Type"] = CallerType
    /\ mar.headers["Authorization"] = Bearer(mar.token)
    /\ api.pc = "fetch"
    /\ api.headers["Authorization"] = CallerAuth
    /\ api.headers["Content-Type"] = CallerType
    /\ localStorage.authToken # None

(***************************************************************************)
(* Properties of the rendered list                                         *)
(***************************************************************************)
\* this step ran applyFilters: a selector, the list, the counts or the
\* filtered list changed
RenderStep ==
    \/ currentFilters' # currentFilters
    \/ reports' # reports
    \/ stats' # stats
    \/ filteredReports' # filteredReports

\* what renderReports leaves on the page for the filtered list
Rendered ==
    IF filteredReports = <<>>
    THEN containerHidden /\ ~noReportsHidden
    ELSE /\ ~containerHidden /\ noReportsHidden
         /\ Len(containerHTML) = Len(filteredReports)
         /\ \A i \in 1..Len(filteredReports) :
               containerHTML[i] = Fragment(filteredReports[i])

\* C11: after a step that ran applyFilters, an empty filtered list shows the
\* empty-state with the container hidden, a non-empty one shows the container
\* with one fragment per filtered report in the list's order and hides the
\* empty-state; after any step the two are not both visible, and a visible
\* container holds the fragments of the filtered list.
C11_RenderMatchesFiltered ==
    [][ /\ RenderStep => Rendered'
        /\ ~(~containerHidden' /\ ~noReportsHidden')
        /\ ~containerHidden' => Rendered'
      ]_vars

\* C11 witness: a category selector keeps two different reports, both painted
C11_Witness ==
    /\ currentFilters.category # NoConstraint
    /\ Len(filteredReports) = 2
    /\ filteredReports[1] # filteredReports[2]
    /\ ~containerHidden /\ noReportsHidden
    /\ containerHTML = <<Fragment(filteredReports[1]), Fragment(filteredReports[2])>>

(***************************************************************************)
(* Properties of overlapping loads                                         *)
(***************************************************************************)
\* C12: whichever loadReports call resumes last, the youngest or one issued
\* before a call already answered, the report list is the body of its
\* response, and the counts and the filtered list are those of that same list.
C12_LastResolvedWins ==
    /\ reports = lastData
    /\ overtaken \in 0..loadsInFlight
    /\ stats # StatsUnset =>
          /\ stats.total = Len(lastData)
          /\ \A s \in {"submitted", "in_progress", "resolved"} : stats[s] = CountOf(s)
    /\ Len(filteredReports) = Cardinality(VisibleAt)
    /\ \A j \in 1..Len(filteredReports) : filteredReports[j] = lastData[NthVisible(j)]

\* C12 witness: no load is waiting, the last response applied answered a call
\* issued before one already answered, and its two reports are on the page,
\* counted in full and filtered down to one
C12_Witness ==
    /\ loadsInFlight = 0
    /\ lastStale
    /\ Len(lastData) = 2
    /\ reports = lastData
    /\ stats.total = 2
    /\ currentFilters.status # NoConstraint
    /\ Len(filteredReports) = 1

(***************************************************************************)
(* Properties of the session against operations still waiting             *)
(***************************************************************************)
\* C14 as stated: the store, empty once logout() has run (as it is before the
\* first login), gets an entry again only by a step of handleLogin, whatever
\* was waiting for a response when it was emptied.
C14_Original ==
    [][ (localStorage = EmptyStore /\ localStorage' # EmptyStore)
            => login' # login ]_vars

\* C15 as stated: a step on which handleLogin shows 'Login successful!' and
\* redirects leaves the access token and the refresh token of this login's
\* token response in the store; a step on which the session login fails stores
\* nothing and leaves the location alone.
C15_Original ==
    [][ /\ (login.pc \in {"token", "profile"} /\ login'.pc = "done"
              /\ login'.toast = "success") =>
             /\ location' = Dashboard(login.role)
             /\ login.access \in AccessTokens
             /\ login.refresh \in RefreshTokens
             /\ localStorage'.authToken = login.access
             /\ localStorage'.refreshToken = login.refresh
        /\ (login.pc = "session" /\ login'.pc = "done") =>
             /\ login'.toast = "error"
             /\ localStorage' = localStorage
             /\ location' = location
      ]_vars

====
